---- MODULE Spec2Model ----
(***************************************************************************)
(* A model of the two command line tools of parquet2peak:                  *)
(*                                                                         *)
(*   parquet2peak  loads a table of (timestamp, identifier, payload) rows  *)
(*                 and replays them on a CAN transceiver, pacing the       *)
(*                 frames by the recorded timestamps;                      *)
(*   blf2parquet   scans a BLF log and extracts the CAN messages of one    *)
(*                 channel inside a percentage window into three columns.  *)
(*                                                                         *)
(* Representation of numbers.  A table timestamp (f64 seconds in the code) *)
(* is kept as a whole number of milliseconds, and every duration as a      *)
(* whole number of nanoseconds, so the arithmetic of the code is exact     *)
(* integer arithmetic here; the rounding of f64 is not modelled.           *)
(***************************************************************************)
EXTENDS Integers, Sequences, FiniteSets, TLC

\* Bounds of the model.
MaxRows == 3
MaxObjects == 3

\* Program constants of parquet2peak.rs, in the units of the model: the
\* factor of line 49 takes a timestamp difference to nanoseconds, the one of
\* line 50 nanoseconds to microseconds, and line 58 bounds the standard
\* identifiers.
NANOS_PER_MILLI == 1000000
NANOS_PER_MICRO == 1000
STANDARD_LIMIT == 2048

VARIABLES
    \* parquet2peak: the inputs
    rows,            \* the rows the table reader yields, in table order
    exclude_id,      \* parse_hex_list(args.exclude_id)
    forever,         \* args.loop_forever
    \* parquet2peak: main
    pc,              \* "load", "open", "loop", "for", "report", "exit"
    row_iter,        \* number of rows taken from row_iter
    content,         \* the replay sequence
    elem, felem,     \* rows iterated / rows kept
    \* parquet2peak: send_can_messages
    pos,             \* records of content the for loop has taken
    old_timing,      \* <<>> is None, <<t>> is Some(t)
    passive_timing,  \* nanoseconds
    c,               \* frames submitted successfully in this pass
    old_perc,        \* the frame count whose percentage was printed last
    \* parquet2peak: what the transceiver, the clock and the terminal saw
    sent,            \* this pass: <<[k, t, ok]>> one entry per socket.send
    built,           \* this pass: CanFrame::new calls that returned a frame
    nslept,          \* this pass: calls of sleep
    last_sleep,      \* this pass: <<>> or <<[k, us]>>, the latest sleep
    clock,           \* this pass: the last two start.elapsed() readings [k, ns, work, rep]
    tx_failed,       \* some socket.send has returned Err
    perc_totals,     \* every divisor a progress percentage was computed with
    reports,         \* the error reports printed so far
    \* blf2parquet: the inputs
    log,              \* the objects of the BLF file, in log order
    args_channel,     \* args.channel
    start_percentage, \* args.start_percentage
    end_percentage,   \* args.end_percentage
    start_timestamp,  \* measurement_start_time, nanoseconds
    \* blf2parquet: main
    scan_pc,          \* "scan", "build", "done", or "panic"
    scan_c,           \* c, the objects taken from blf_iter
    vts, vid, vdata, vlen,
    table,            \* the rows of the record batch that is written
    \* blf2parquet: what the scan did
    examined,         \* the positions whose object reached `match obj.data`
    emitted_at        \* the position of the object behind each emitted record

replay_in == <<rows, exclude_id, forever>>
replay_main == <<pc, row_iter, content, elem, felem>>
replay_pass == <<pos, old_timing, passive_timing, c, old_perc>>
replay_obs == <<sent, built, nslept, last_sleep, clock, tx_failed, perc_totals, reports>>

replay_vars == <<replay_in, replay_main, replay_pass, replay_obs>>

extract_in == <<log, args_channel, start_percentage, end_percentage, start_timestamp>>
extract_cols == <<vts, vid, vdata, vlen>>
extract_obs == <<examined, emitted_at>>
extract_vars == <<extract_in, scan_pc, scan_c, extract_cols, table, extract_obs>>

vars == <<replay_vars, extract_vars>>

----------------------------------------------------------------------------
(* Inputs of the replay tool *)

Byte9 == <<1, 2, 3, 4, 5, 6, 7, 8, 9>>

\* A row of the table.  kind: "ok" decodes; "iter_err" makes row_iter.next()
\* return Some(Err); "bad_ts" and "bad_id" make get_double(0) and get_uint(1)
\* fail; "bad_list" makes get_list(2) fail.  A list element below 0 stands
\* for a field that is not Field::UByte.  The timestamps are 10.000 s and
\* 10.010 s, in milliseconds.
Row(kind, ts, id, data) == [kind |-> kind, ts |-> ts, id |-> id, data |-> data]

RowPool ==
    { Row("ok", 10000, 2047, <<17>>),
      Row("ok", 10010, 2047, <<17>>),
      Row("ok", 10010, 2048, <<17, -1>>),
      Row("ok", 10010, 2047, Byte9),
      Row("iter_err", 10000, 2048, <<>>),
      Row("bad_ts", 10000, 2047, <<17>>),
      Row("bad_list", 10010, 2047, <<17>>) }

RECURSIVE SeqsUpTo(_, _)
SeqsUpTo(S, n) ==
    IF n = 0 THEN { <<>> }
    ELSE LET shorter == SeqsUpTo(S, n - 1)
         IN  shorter \cup { Append(s, x) : s \in { t \in shorter : Len(t) = n - 1 }, x \in S }

Tables == SeqsUpTo(RowPool, MaxRows)

ExcludeSets == { {}, {2048} }

\* What the clock can read for the work of one iteration (lines 55-71) and
\* for its progress block (lines 72-80), in nanoseconds.
WorkTimes == {0, 3000000}
ReportTimes == {0, 8000500}

----------------------------------------------------------------------------
(* parquet2peak.rs: pure parts *)

None == <<>>
Some(x) == <<x>>

Max(a, b) == IF a >= b THEN a ELSE b

\* f64 `as u64`: truncation toward zero, negative values saturate to 0.
AsU64_abs(num, den) == (IF num < 0 THEN 0 - num ELSE num) \div den

AsU64(num, den) == IF num < 0 THEN 0 ELSE num \div den

\* process_row: None when a `?` returns the error.
ProcessRow(row) ==
    IF row.kind \in {"bad_ts", "bad_id"}
    THEN None
    ELSE Some([ts |-> row.ts,
               id |-> row.id,
               data |-> IF row.kind = "bad_list"
                        THEN <<>>
                        ELSE SelectSeq(row.data, LAMBDA f : f >= 0)])

\* lines 49-50: the microseconds slept before a record.
SleepMicros_round(curr, previous, passive) ==
    LET diff == (Max(curr - previous, 0) * NANOS_PER_MILLI) - passive
    IN  AsU64(diff + 500, NANOS_PER_MICRO)

SleepMicros(curr, previous, passive) ==
    LET diff == (Max(curr - previous, 0) * NANOS_PER_MILLI) - passive
    IN  AsU64(diff, NANOS_PER_MICRO)

Elapsed_before_report(work, rep) == work

\* line 81: start.elapsed() read after the progress block, for an iteration
\* whose lines 55-71 took `work` and whose lines 72-80 took `rep`.
Elapsed(work, rep) == work + rep

\* lines 58-62
MessageType_lt_7ff(id) == IF id < STANDARD_LIMIT - 1 THEN "Standard" ELSE "Extended"

MessageType(id) == IF id < STANDARD_LIMIT THEN "Standard" ELSE "Extended"

\* CanFrame::new of peak_can: at most 8 bytes, and an identifier that fits
\* the message type.
CanFrameNew(id, t, data) ==
    /\ Len(data) <= 8
    /\ t = "Standard" => id <= 2047
    /\ t = "Extended" => id <= 536870911

\* line 74, with perc = c / content_size * 100 and old_perc kept as a count.
PercAdvanced(cnt, old, size) == 10000 * (cnt - old) >= size

\* lines 143-144: whether a processed row enters the replay sequence.
Keep_all(r) == r # None

Keep(r) == r # None /\ r[1].id \notin exclude_id

\* line 68: where a failed socket.send leaves the for loop.
AfterSendError_continue == "for"

AfterSendError == "report"

\* lines 168-175: where main goes when send_can_messages returns.
AfterPass_always_loop(result_ok) ==
    IF ~result_ok THEN "exit" ELSE "loop"

AfterPass_err_loops(result_ok) ==
    IF forever = FALSE THEN "exit" ELSE "loop"

AfterPass(result_ok) ==
    IF ~result_ok THEN "exit"
    ELSE IF forever = FALSE THEN "exit" ELSE "loop"

----------------------------------------------------------------------------
(* parquet2peak.rs: the state machine *)

\* The state of blf2parquet while the replay tool runs.
ExtractIdle ==
    /\ log = <<>>
    /\ args_channel = 0
    /\ start_percentage = 0
    /\ end_percentage = 100
    /\ start_timestamp = 0
    /\ scan_pc = "idle"
    /\ scan_c = 0
    /\ vts = <<>>
    /\ vid = <<>>
    /\ vdata = <<>>
    /\ vlen = <<>>
    /\ table = <<>>
    /\ examined = {}
    /\ emitted_at = <<>>

ReplayInit ==
    /\ ExtractIdle
    /\ rows \in Tables
    /\ exclude_id \in ExcludeSets
    /\ forever \in BOOLEAN
    /\ pc = "load"
    /\ row_iter = 0
    /\ content = <<>>
    /\ elem = 0
    /\ felem = 0
    /\ pos = 0
    /\ old_timing = None
    /\ passive_timing = 0
    /\ c = 0
    /\ old_perc = 0
    /\ sent = <<>>
    /\ built = 0
    /\ nslept = 0
    /\ last_sleep = <<>>
    /\ clock = <<>>
    /\ tx_failed = FALSE
    /\ perc_totals = {}
    /\ reports = {}

\* lines 142-150: one turn of `while let Some(Ok(row)) = row_iter.next()`.
LoadRow ==
    /\ pc = "load"
    /\ row_iter < Len(rows)
    /\ rows[row_iter + 1].kind # "iter_err"
    /\ LET r == ProcessRow(rows[row_iter + 1])
           keep == Keep(r)
       IN  /\ content' = IF keep THEN Append(content, r[1]) ELSE content
           /\ felem' = IF keep THEN felem + 1 ELSE felem
    /\ elem' = elem + 1
    /\ row_iter' = row_iter + 1
    /\ UNCHANGED extract_vars
    /\ UNCHANGED <<pc, replay_in, replay_pass, replay_obs>>

\* line 142: the pattern fails, on None or on Some(Err(_)), and the loop ends.
LoadEnd ==
    /\ pc = "load"
    /\ \/ row_iter = Len(rows)
       \/ /\ row_iter < Len(rows)
          /\ rows[row_iter + 1].kind = "iter_err"
    /\ pc' = "open"
    /\ UNCHANGED extract_vars
    /\ UNCHANGED <<row_iter, content, elem, felem, replay_in, replay_pass, replay_obs>>

\* lines 156-162
OpenSocket ==
    /\ pc = "open"
    /\ \E opened \in BOOLEAN : pc' = IF opened THEN "loop" ELSE "exit"
    /\ UNCHANGED extract_vars
    /\ UNCHANGED <<row_iter, content, elem, felem, replay_in, replay_pass, replay_obs>>

StartPass_keeps_timing ==
    /\ pc = "loop"
    /\ pc' = "for"
    /\ pos' = 0
    /\ c' = 0
    /\ old_perc' = 0
    /\ sent' = <<>>
    /\ built' = 0
    /\ nslept' = 0
    /\ last_sleep' = <<>>
    /\ clock' = <<>>
    /\ UNCHANGED extract_vars
    /\ UNCHANGED <<row_iter, content, elem, felem, replay_in, tx_failed, perc_totals, reports,
                   old_timing, passive_timing>>

\* lines 167-168 and 38-45: main calls send_can_messages.
StartPass ==
    /\ pc = "loop"
    /\ pc' = "for"
    /\ pos' = 0
    /\ old_timing' = None
    /\ passive_timing' = 0
    /\ c' = 0
    /\ old_perc' = 0
    /\ sent' = <<>>
    /\ built' = 0
    /\ nslept' = 0
    /\ last_sleep' = <<>>
    /\ clock' = <<>>
    /\ UNCHANGED extract_vars
    /\ UNCHANGED <<row_iter, content, elem, felem, replay_in, tx_failed, perc_totals, reports>>

\* lines 48-53: the sleep of the iteration that takes record k.
Pace(k) ==
    IF old_timing # None
    THEN /\ nslept' = nslept + 1
         /\ last_sleep' = Some([k |-> k,
                                us |-> SleepMicros(content[k].ts, old_timing[1], passive_timing)])
    ELSE UNCHANGED <<nslept, last_sleep>>

\* lines 47-82: an iteration whose frame is built and sent.
SendFrame ==
    /\ pc = "for"
    /\ pos < Len(content)
    /\ LET k == pos + 1
           rec == content[k]
       IN  /\ Pace(k)
           /\ old_timing' = Some(rec.ts)
           /\ CanFrameNew(rec.id, MessageType(rec.id), rec.data)
           /\ built' = built + 1
           /\ sent' = Append(sent, [k |-> k, t |-> MessageType(rec.id), ok |-> TRUE])
           /\ c' = c + 1
           /\ \E due \in BOOLEAN, work \in WorkTimes, rep \in ReportTimes :
                /\ IF due
                   THEN /\ perc_totals' = perc_totals \cup {Len(content)}
                        /\ old_perc' = IF PercAdvanced(c + 1, old_perc, Len(content))
                                       THEN c + 1 ELSE old_perc
                   ELSE UNCHANGED <<perc_totals, old_perc>>
                /\ passive_timing' = Elapsed(work, rep)
                /\ clock' = SubSeq(Append(clock, [k |-> k, ns |-> Elapsed(work, rep),
                                                  work |-> work, rep |-> rep]),
                                   Max(Len(clock), 1), Len(clock) + 1)
           /\ pos' = k
    /\ UNCHANGED extract_vars
    /\ UNCHANGED <<replay_main, replay_in, tx_failed, reports>>

SendFails_counts ==
    /\ pc = "for"
    /\ pos < Len(content)
    /\ LET k == pos + 1
           rec == content[k]
       IN  /\ Pace(k)
           /\ old_timing' = Some(rec.ts)
           /\ CanFrameNew(rec.id, MessageType(rec.id), rec.data)
           /\ built' = built + 1
           /\ sent' = Append(sent, [k |-> k, t |-> MessageType(rec.id), ok |-> FALSE])
           /\ pos' = k
    /\ c' = c + 1
    /\ tx_failed' = TRUE
    /\ reports' = reports \cup {"unable to send frame"}
    /\ pc' = AfterSendError
    /\ UNCHANGED extract_vars
    /\ UNCHANGED <<row_iter, content, elem, felem, replay_in,
                   passive_timing, old_perc, clock, perc_totals>>

\* lines 47-69: an iteration whose frame is built and whose send fails.
SendFails ==
    /\ pc = "for"
    /\ pos < Len(content)
    /\ LET k == pos + 1
           rec == content[k]
       IN  /\ Pace(k)
           /\ old_timing' = Some(rec.ts)
           /\ CanFrameNew(rec.id, MessageType(rec.id), rec.data)
           /\ built' = built + 1
           /\ sent' = Append(sent, [k |-> k, t |-> MessageType(rec.id), ok |-> FALSE])
           /\ pos' = k
    /\ tx_failed' = TRUE
    /\ reports' = reports \cup {"unable to send frame"}
    /\ pc' = AfterSendError
    /\ UNCHANGED extract_vars
    /\ UNCHANGED <<row_iter, content, elem, felem, replay_in,
                   passive_timing, c, old_perc, clock, perc_totals>>

\* lines 47-64 and 168-171, 177: CanFrame::new fails, `?` returns the error
\* to main, which reports it and leaves its loop.
BuildFails ==
    /\ pc = "for"
    /\ pos < Len(content)
    /\ LET k == pos + 1
           rec == content[k]
       IN  /\ Pace(k)
           /\ old_timing' = Some(rec.ts)
           /\ ~CanFrameNew(rec.id, MessageType(rec.id), rec.data)
           /\ pos' = k
    /\ reports' = reports \cup {"Error sending CAN frames."}
    /\ pc' = AfterPass(FALSE)
    /\ UNCHANGED extract_vars
    /\ UNCHANGED <<row_iter, content, elem, felem, replay_in,
                   passive_timing, c, old_perc, sent, built, clock, tx_failed, perc_totals>>

\* lines 83-85 and 168-177: the final progress line, Ok(()), and main's
\* choice between another pass and the exit.
FinishPass ==
    /\ \/ pc = "report"
       \/ pc = "for" /\ pos = Len(content)
    /\ perc_totals' = perc_totals \cup {Len(content)}
    /\ pc' = AfterPass(TRUE)
    /\ UNCHANGED extract_vars
    /\ UNCHANGED <<row_iter, content, elem, felem, replay_in, replay_pass,
                   sent, built, nslept, last_sleep, clock, tx_failed, reports>>

ReplayNext ==
    \/ LoadRow
    \/ LoadEnd
    \/ OpenSocket
    \/ StartPass
    \/ SendFrame
    \/ SendFails
    \/ BuildFails
    \/ FinishPass

ReplaySpec == ReplayInit /\ [][ReplayNext]_vars

\* The tool is one thread that always takes its next step.  Termination is
\* checked for the tables that are shorter than the longest ones.
ReplayFairInit == ReplayInit /\ Len(rows) < MaxRows

ReplayFairSpec == ReplayFairInit /\ [][ReplayNext]_vars /\ WF_vars(ReplayNext)

----------------------------------------------------------------------------
(* Inputs of the extract tool *)

\* An object of the log.  The u32 identifier field is kept as its two
\* 16-bit halves; timestamp_ns is the relative timestamp field, whose unit
\* header.flags selects.
CanMessage(flags, timestamp_ns, channel, hi, lo, data) ==
    [type |-> "CanMessage86", flags |-> flags, timestamp_ns |-> timestamp_ns,
     channel |-> channel, id |-> [hi |-> hi, lo |-> lo], data |-> data]

ObjectPool ==
    { CanMessage(1, 1500, 1, 40960, 291, <<1, 2>>),
      CanMessage(0, 1500000000, 1, 0, 291, <<>>),
      CanMessage(2, 1500, 1, 8191, 65535, <<3>>),
      CanMessage(1, 2, 2, 0, 2047, <<4, 5, 6>>),
      CanMessage(0, 7, 0, 0, 1, <<8>>),
      [type |-> "Other"] }

Logs == SeqsUpTo(ObjectPool, MaxObjects)

Percentages == {0, 34, 67, 100}

\* Header start times, nanoseconds since the epoch; the header has
\* millisecond precision.
StartTimes == {0, 500000000}

----------------------------------------------------------------------------
(* blf2parquet.rs: pure parts *)

\* line 80: file_stats.object_count, taken to be the number of objects the
\* iterator yields.
objects == Len(log)

\* line 51: `args.channel + 1` in u16.  For args.channel = 65535 the sum
\* overflows: a build with overflow checks panics there, a build without
\* them wraps to 0.
ChannelOverflows == args_channel + 1 > 65535

channel == (args_channel + 1) % 65536

\* line 51: where main stands after it.
AfterChannel == IF ChannelOverflows THEN {"panic", "scan"} ELSE {"scan"}

\* lines 92-93, perc = c / objects * 100 compared without rounding:
\* `perc < start`.
PercBelow(cnt, s) == 100 * cnt < s * objects

PercAbove_lt(cnt, e) == 100 * cnt < e * objects

\* lines 92, 96: `perc > end`.
PercAbove(cnt, e) == 100 * cnt > e * objects

BelowWindow_le(cnt) == 100 * cnt <= start_percentage * objects

BelowWindow(cnt) == PercBelow(cnt, start_percentage)

\* lines 92, 96
AboveWindow(cnt) == PercAbove(cnt, end_percentage)

\* lines 90-125: the positions of the objects the loop pushes onto the
\* columns when it runs from counter cnt with the window [s, e].
RECURSIVE ScanFrom(_, _, _)
ScanFrom(cnt, s, e) ==
    IF cnt = objects
    THEN <<>>
    ELSE LET n == cnt + 1
         IN  IF PercBelow(n, s)
             THEN ScanFrom(n, s, e)
             ELSE IF PercAbove(n, e)
                  THEN <<>>
                  ELSE (IF log[n].type = "CanMessage86" /\ log[n].channel = channel
                        THEN <<n>>
                        ELSE <<>>) \o ScanFrom(n, s, e)

\* lines 102-106: start_timestamp + Duration, in nanoseconds.
AbsoluteTimestamp_nonzero_flag(msg) ==
    start_timestamp + (IF msg.flags # 0
                       THEN msg.timestamp_ns * 1000000
                       ELSE msg.timestamp_ns)

AbsoluteTimestamp_always_nanos(msg) ==
    start_timestamp + msg.timestamp_ns

AbsoluteTimestamp(msg) ==
    start_timestamp + (IF msg.flags = 1
                       THEN msg.timestamp_ns * 1000000
                       ELSE msg.timestamp_ns)

\* line 111: whole seconds plus the nanoseconds below the second, as one
\* number of nanoseconds.
TsF(ts) == (ts \div 1000000000) * 1000000000 + (ts % 1000000000)

\* line 108: id & 0x1FFFFFFF, the low 13 bits of the high half kept.
MaskId_30_bits(id) == (id.hi % 16384) * 65536 + id.lo

MaskId(id) == (id.hi % 8192) * 65536 + id.lo

Lists_from_zero(lens, bytes) == [n \in 1..Len(lens) |-> SubSeq(bytes, 1, lens[n])]

\* lines 136-140: the list column, vdata cut at the offsets vlen gives.
RECURSIVE Lists(_, _)
Lists(lens, bytes) ==
    IF lens = <<>> THEN <<>>
    ELSE <<SubSeq(bytes, 1, Head(lens))>>
         \o Lists(Tail(lens), SubSeq(bytes, Head(lens) + 1, Len(bytes)))

----------------------------------------------------------------------------
(* blf2parquet.rs: the state machine *)

\* The state of parquet2peak while the extract tool runs.
ReplayIdle ==
    /\ rows = <<>>
    /\ exclude_id = {}
    /\ forever = FALSE
    /\ pc = "idle"
    /\ row_iter = 0
    /\ content = <<>>
    /\ elem = 0
    /\ felem = 0
    /\ pos = 0
    /\ old_timing = None
    /\ passive_timing = 0
    /\ c = 0
    /\ old_perc = 0
    /\ sent = <<>>
    /\ built = 0
    /\ nslept = 0
    /\ last_sleep = <<>>
    /\ clock = <<>>
    /\ tx_failed = FALSE
    /\ perc_totals = {}
    /\ reports = {}

\* lines 47-88
ExtractInit ==
    /\ ReplayIdle
    /\ log \in Logs
    /\ args_channel \in {0, 1, 65535}
    /\ start_percentage \in Percentages
    /\ end_percentage \in Percentages
    /\ start_timestamp \in StartTimes
    /\ scan_pc \in AfterChannel
    /\ scan_c = 0
    /\ vts = <<>>
    /\ vid = <<>>
    /\ vdata = <<>>
    /\ vlen = <<>>
    /\ table = <<>>
    /\ examined = {}
    /\ emitted_at = <<>>

\* lines 90-95: an object below the window.
ScanSkip ==
    /\ scan_pc = "scan"
    /\ scan_c < Len(log)
    /\ BelowWindow(scan_c + 1)
    /\ scan_c' = scan_c + 1
    /\ UNCHANGED replay_vars
    /\ UNCHANGED <<extract_in, scan_pc, extract_cols, table, extract_obs>>

\* lines 90-98: the first object above the window.
ScanBreak ==
    /\ scan_pc = "scan"
    /\ scan_c < Len(log)
    /\ ~BelowWindow(scan_c + 1)
    /\ AboveWindow(scan_c + 1)
    /\ scan_c' = scan_c + 1
    /\ scan_pc' = "build"
    /\ UNCHANGED replay_vars
    /\ UNCHANGED <<extract_in, extract_cols, table, extract_obs>>

\* lines 90-122: a CAN message in the window.
ScanCanMessage ==
    /\ scan_pc = "scan"
    /\ scan_c < Len(log)
    /\ ~BelowWindow(scan_c + 1)
    /\ ~AboveWindow(scan_c + 1)
    /\ LET can_msg == log[scan_c + 1]
       IN  /\ can_msg.type = "CanMessage86"
           /\ IF can_msg.channel = channel
              THEN /\ vts' = Append(vts, TsF(AbsoluteTimestamp(can_msg)))
                   /\ vid' = Append(vid, MaskId(can_msg.id))
                   /\ vdata' = vdata \o can_msg.data
                   /\ vlen' = Append(vlen, Len(can_msg.data))
                   /\ emitted_at' = Append(emitted_at, scan_c + 1)
              ELSE UNCHANGED <<extract_cols, emitted_at>>
    /\ examined' = examined \cup {scan_c + 1}
    /\ scan_c' = scan_c + 1
    /\ UNCHANGED replay_vars
    /\ UNCHANGED <<extract_in, scan_pc, table>>

\* lines 90-100, 123: any other object in the window.
ScanOther ==
    /\ scan_pc = "scan"
    /\ scan_c < Len(log)
    /\ ~BelowWindow(scan_c + 1)
    /\ ~AboveWindow(scan_c + 1)
    /\ log[scan_c + 1].type # "CanMessage86"
    /\ examined' = examined \cup {scan_c + 1}
    /\ scan_c' = scan_c + 1
    /\ UNCHANGED replay_vars
    /\ UNCHANGED <<extract_in, scan_pc, extract_cols, table, emitted_at>>

\* line 90: blf_iter is exhausted.
ScanEnd ==
    /\ scan_pc = "scan"
    /\ scan_c = Len(log)
    /\ scan_pc' = "build"
    /\ UNCHANGED replay_vars
    /\ UNCHANGED <<extract_in, scan_c, extract_cols, table, extract_obs>>

\* lines 127-167: the record batch is built from the columns and written.
WriteTable ==
    /\ scan_pc = "build"
    /\ LET data == Lists(vlen, vdata)
       IN  table' = [n \in 1..Len(vts) |-> [ts |-> vts[n], id |-> vid[n], data |-> data[n]]]
    /\ scan_pc' = "done"
    /\ UNCHANGED replay_vars
    /\ UNCHANGED <<extract_in, scan_c, extract_cols, extract_obs>>

ExtractNext ==
    \/ ScanSkip
    \/ ScanBreak
    \/ ScanCanMessage
    \/ ScanOther
    \/ ScanEnd
    \/ WriteTable

ExtractSpec == ExtractInit /\ [][ExtractNext]_vars

----------------------------------------------------------------------------
(* blf2parquet.rs: properties *)

InWindow(i) ==
    /\ start_percentage * objects <= 100 * i
    /\ 100 * i <= end_percentage * objects

\* The emitted records come from examined positions, in increasing order,
\* and the examined positions are one range.
ContiguousEmission ==
    /\ \A i, j \in examined : \A m \in i..j : m \in examined
    /\ \A n \in 1..Len(emitted_at) :
          /\ emitted_at[n] \in examined
          /\ n > 1 => emitted_at[n - 1] < emitted_at[n]

C10_TimestampDecoding ==
    /\ Len(vts) = Len(emitted_at)
    /\ \A n \in 1..Len(vts) :
          LET ev == log[emitted_at[n]]
          IN  vts[n] = start_timestamp +
                       (CASE ev.flags = 1 -> ev.timestamp_ns * 1000000
                          [] OTHER -> ev.timestamp_ns)

\* Offset 1500 with flag 1 and offset 1500000000 with flag 0 are both
\* emitted as T0 + 1.5 s, and an event of flag 2 keeps its nanoseconds.
C10_Witness ==
    /\ Len(vts) = 3
    /\ log[1].flags = 1 /\ log[1].timestamp_ns = 1500
    /\ log[2].flags = 0 /\ log[2].timestamp_ns = 1500000000
    /\ log[3].flags = 2
    /\ vts[1] = start_timestamp + 1500000000
    /\ vts[2] = vts[1]
    /\ vts[3] = start_timestamp + 1500
    /\ start_timestamp = 500000000

\* The in-window CAN messages seen so far, by position.
ExaminedMessages == { i \in examined : log[i].type = "CanMessage86" }

EmittedPositions == { emitted_at[n] : n \in 1..Len(emitted_at) }

\* C11 (as claimed): the +1 of the channel never overflows, and a CAN
\* message in the window is emitted iff its channel field is the configured
\* channel plus one.
C11_ChannelPlusOne ==
    /\ scan_pc # "panic"
    /\ \A i \in ExaminedMessages :
          i \in EmittedPositions <=> log[i].channel = args_channel + 1

\* The offset of an event from the header start time, in nanoseconds.
OffsetNanos(ev) == IF ev.flags = 1 THEN ev.timestamp_ns * 1000000 ELSE ev.timestamp_ns

RecordAt(n) ==
    [ts |-> TsF(AbsoluteTimestamp(log[n])), id |-> MaskId(log[n].id), data |-> log[n].data]

RecordsOf(positions) == [n \in 1..Len(positions) |-> RecordAt(positions[n])]

IsContiguousSubSeq(narrow, wide) ==
    \E off \in 0..(Len(wide) - Len(narrow)) :
        SubSeq(wide, off + 1, off + Len(narrow)) = narrow

\* C13: for the same log and channel, a run over a window [s, e] with
\* s <= e extracts what the loop computes for [s, e], and for every wider
\* window [s2, e2], s2 <= s <= e <= e2, the loop extracts at least as many
\* records, of which the records of [s, e] are a contiguous sub-sequence.
C13_WiderWindowExtractsMore ==
    scan_pc = "done" /\ start_percentage <= end_percentage =>
        LET narrow == ScanFrom(0, start_percentage, end_percentage)
        IN  /\ emitted_at = narrow
            /\ table = RecordsOf(narrow)
            /\ \A s2 \in Percentages, e2 \in Percentages :
                  s2 <= start_percentage /\ end_percentage <= e2 =>
                      LET wide == ScanFrom(0, s2, e2)
                      IN  /\ Len(wide) >= Len(narrow)
                          /\ IsContiguousSubSeq(RecordsOf(narrow), RecordsOf(wide))

\* The window [34, 67] of a log of three matching events extracts the
\* middle one, and [0, 100] extracts all three.
C13_Witness ==
    /\ scan_pc = "done"
    /\ start_percentage = 34
    /\ end_percentage = 67
    /\ emitted_at = <<2>>
    /\ ScanFrom(0, 0, 100) = <<1, 2, 3>>

\* C15: every emitted identifier is the identifier field of its event
\* modulo 2^29: it is below 2^29, its low 16 bits are the low half of the
\* field and its bits 16..28 are the low 13 bits of the high half.
C15_IdentifierMasked ==
    \A n \in 1..Len(vid) :
        LET src == log[emitted_at[n]].id
        IN  /\ 0 <= vid[n] /\ vid[n] < 536870912
            /\ vid[n] % 65536 = src.lo
            /\ vid[n] \div 65536 = src.hi % 8192

\* 0xA0000123 is emitted as 0x123, and 0x1FFFFFFF as itself.
C15_Witness ==
    /\ scan_pc = "done"
    /\ \E n \in 1..Len(vid) :
          /\ log[emitted_at[n]].id = [hi |-> 40960, lo |-> 291]
          /\ vid[n] = 291
    /\ \E n \in 1..Len(vid) :
          /\ log[emitted_at[n]].id = [hi |-> 8191, lo |-> 65535]
          /\ vid[n] = 536870911

\* The sum of the first k payload lengths.
RECURSIVE SumLen(_)
SumLen(k) == IF k = 0 THEN 0 ELSE SumLen(k - 1) + vlen[k]

\* C20: throughout the scan and after it, the timestamp, identifier and
\* length columns have one entry per emitted event, the lengths add up to
\* the number of payload bytes, the bytes of the k-th payload are the
\* payload of the k-th emitted event, of whatever length, and so are the
\* lists of the written table; a scan that emitted nothing has empty
\* columns, can write its table, and writes the empty table.
C20_ColumnsAgree ==
    /\ Len(vts) = Len(emitted_at)
    /\ Len(vid) = Len(emitted_at)
    /\ Len(vlen) = Len(emitted_at)
    /\ SumLen(Len(vlen)) = Len(vdata)
    /\ \A k \in 1..Len(vlen) :
          /\ vlen[k] = Len(log[emitted_at[k]].data)
          /\ SubSeq(vdata, SumLen(k - 1) + 1, SumLen(k)) = log[emitted_at[k]].data
    /\ scan_pc = "build" => ENABLED WriteTable
    /\ scan_pc = "done" =>
          /\ Len(table) = Len(emitted_at)
          /\ \A k \in 1..Len(table) :
                /\ table[k].ts = vts[k]
                /\ table[k].id = vid[k]
                /\ table[k].data = log[emitted_at[k]].data
    /\ emitted_at = <<>> =>
          /\ vts = <<>> /\ vid = <<>> /\ vdata = <<>> /\ vlen = <<>>
          /\ scan_pc = "done" => table = <<>>

\* A table of three events with payloads of 2, 0 and 1 bytes.
C20_Witness ==
    /\ scan_pc = "done"
    /\ vlen = <<2, 0, 1>>
    /\ vdata = <<1, 2, 3>>
    /\ table[3].data = <<3>>

\* A log with objects in the window and no event of the channel: the
\* empty table is written.
C20_WitnessEmpty ==
    /\ scan_pc = "done"
    /\ examined # {}
    /\ emitted_at = <<>>
    /\ table = <<>>

----------------------------------------------------------------------------
(* parquet2peak.rs: properties *)

PassOver == pc \in {"report", "loop", "exit"}

\* The clock reading of the iteration that took record j of this pass.
OverheadOf(j) == (CHOOSE e \in { clock[n] : n \in 1..Len(clock) } : e.k = j).ns

\* The microseconds to sleep for gap G and overhead O, both in nanoseconds.
FloorMicros(G, O) == (G - O) \div NANOS_PER_MICRO
ClampedMicros(G, O) == IF O <= G THEN (G - O) \div NANOS_PER_MICRO ELSE 0

GapNanos(curr, previous) == Max(0, curr - previous) * NANOS_PER_MILLI

\* The indexes, among the first n rows, of the rows that decode and are not
\* excluded, in table order.
RECURSIVE KeptRows(_)
KeptRows(n) ==
    IF n = 0 THEN <<>>
    ELSE IF rows[n].kind \in {"ok", "bad_list"} /\ rows[n].id \notin exclude_id
         THEN Append(KeptRows(n - 1), n)
         ELSE KeptRows(n - 1)

\* C1 (as claimed): once a socket.send has failed, the tool is at the final
\* report of that pass or at its exit: no further pass is started and no
\* frame is submitted, whatever the loop-forever flag.
C1_TxFailureEndsReplay ==
    tx_failed => pc \in {"report", "exit"}

\* C2 (as claimed): the sleep before record k lasts floor((G - O) / 1000)
\* microseconds, G the gap to record k-1 and O the overhead of iteration k-1.
C2_SleepIsFloor ==
    last_sleep # None =>
        LET k == last_sleep[1].k
        IN  last_sleep[1].us =
                FloorMicros(GapNanos(content[k].ts, content[k - 1].ts), OverheadOf(k - 1))

\* C2 (amended): every record after the first is slept for exactly once,
\* before it is built and submitted, for floor((G - O) / 1000) microseconds
\* when O <= G and for 0 microseconds when O > G; O is the clock reading of
\* iteration k-1 alone.
C2_SleepIsClampedFloor ==
    /\ pc \in {"for", "report", "loop", "exit"} => nslept = Max(pos - 1, 0)
    /\ pos <= 1 => last_sleep = None
    /\ pos >= 2 => last_sleep # None /\ last_sleep[1].k = pos
    /\ last_sleep # None =>
        LET k == last_sleep[1].k
        IN  last_sleep[1].us =
                ClampedMicros(GapNanos(content[k].ts, content[k - 1].ts), OverheadOf(k - 1))

\* Records 10.000 s and 10.010 s: 7000 us after an overhead of 3000 us, and
\* a third record slept for after two non-zero overheads.
C2_Witness ==
    /\ pos = 3
    /\ last_sleep = Some([k |-> 3, us |-> 7000])
    /\ Len(clock) = 2
    /\ clock[1].ns = 3000000
    /\ \E j \in 1..Len(sent) : sent[j].k = 3

\* C3: in a pass, a failed socket.send of record k is the last thing the
\* loop does: k is sent once, the records are sent in order, and nothing
\* after k is slept for, built or sent.
C3_TxFailureEndsPass ==
    \A j \in 1..Len(sent) :
        /\ sent[j].k = j
        /\ sent[j].ok = FALSE =>
            /\ j = Len(sent)
            /\ PassOver
            /\ pos = j
            /\ built = j
            /\ nslept = j - 1

C3_Witness ==
    /\ PassOver
    /\ Len(sent) = 2
    /\ sent[2].ok = FALSE
    /\ Len(content) = 3

\* C5: the replay sequence is the decodable, non-excluded rows in table
\* order; no excluded identifier is submitted; the sleep before a record is
\* computed from the timestamp of the nearest preceding non-excluded row.
C5_ExclusionBeforePacing ==
    LET idx == KeptRows(row_iter)
    IN  /\ Len(content) = Len(idx)
        /\ \A k \in 1..Len(content) :
              /\ content[k].ts = rows[idx[k]].ts
              /\ content[k].id = rows[idx[k]].id
        /\ \A j \in 1..Len(sent) : content[sent[j].k].id \notin exclude_id
        /\ last_sleep # None =>
              LET k == last_sleep[1].k
              IN  last_sleep[1].us =
                      ClampedMicros(GapNanos(rows[idx[k]].ts, rows[idx[k - 1]].ts),
                                    OverheadOf(k - 1))

\* Three rows, the middle one excluded and of another timestamp than the
\* first: two frames are sent, the second 10 ms after the first.
C5_Witness ==
    /\ Len(rows) = 3
    /\ \A n \in 1..3 : rows[n].kind = "ok"
    /\ rows[2].id \in exclude_id
    /\ rows[1].ts # rows[2].ts
    /\ Len(sent) = 2
    /\ sent[2].ok
    /\ last_sleep = Some([k |-> 2, us |-> 10000])

\* C6 (as claimed): with an empty replay sequence the tool reaches its exit.
C6_EmptyReplayExits ==
    (pc = "open" /\ content = <<>>) ~> (pc = "exit")

\* C6 (amended): an empty replay sequence submits no frame and never sleeps;
\* the tool reaches its exit when the loop-forever flag is false, and when
\* the flag is true it exits only if the transceiver cannot be opened.
C6_EmptyReplayExitsOnce ==
    /\ [](content = <<>> => sent = <<>> /\ nslept = 0 /\ built = 0)
    /\ [](content = <<>> /\ forever = TRUE /\ pc = "exit" => perc_totals = {})
    /\ (pc = "open" /\ content = <<>> /\ forever = FALSE) ~> (pc = "exit")

\* A table whose rows are all excluded has been replayed to the exit.
C6_Witness ==
    /\ pc = "exit"
    /\ forever = FALSE
    /\ Len(rows) = 2
    /\ content = <<>>
    /\ perc_totals = {0}
    /\ sent = <<>>

\* C7 (as claimed): no sleep without a previous timestamp, and no progress
\* percentage computed with a total of zero.
C7_NoGapNoZeroDivisor ==
    /\ pos <= 1 => nslept = 0 /\ last_sleep = None
    /\ \A d \in perc_totals : d > 0

\* C8 (as claimed): after loading, the replay sequence holds every
\* non-excluded row of the table that decodes, in table order.
C8_MalformedRowSkipped ==
    pc # "load" =>
        LET idx == KeptRows(Len(rows))
        IN  /\ Len(content) = Len(idx)
            /\ \A k \in 1..Len(content) :
                  /\ content[k].ts = rows[idx[k]].ts
                  /\ content[k].id = rows[idx[k]].id

\* C9: a frame that cannot be built ends the replay: the tool is at its
\* exit, the record was not sent and is the last one taken, and the report
\* is the one of main, printed without the report of a failed send.
C9_BuildFailureEndsReplay ==
    LET failing == pos >= 1 /\ pc # "load" /\
                   ~CanFrameNew(content[pos].id, MessageType(content[pos].id), content[pos].data)
    IN  /\ "Error sending CAN frames." \in reports <=> failing
        /\ failing =>
              /\ pc = "exit"
              /\ Len(sent) = pos - 1
              /\ built = pos - 1
        /\ "unable to send frame" \in reports <=> tx_failed

\* Looping was asked for, a record follows the one that cannot be built,
\* and no send has failed.
C9_Witness ==
    /\ "Error sending CAN frames." \in reports
    /\ forever = TRUE
    /\ pos = 2
    /\ Len(content) = 3
    /\ ~tx_failed
    /\ pc = "exit"

\* C14: every frame handed to the socket is Standard exactly when the
\* identifier of its record is below 0x800 and Extended exactly when it is
\* 0x800 or above, and two frames of records with the same identifier have
\* the same type.
C14_TypeByIdentifier ==
    \A j \in 1..Len(sent) :
        LET id == content[sent[j].k].id
        IN  /\ sent[j].t = "Standard" <=> id < 2048
            /\ sent[j].t = "Extended" <=> id >= 2048
            /\ \A i \in 1..Len(sent) :
                  content[sent[i].k].id = id => sent[i].t = sent[j].t

\* A pass that sends a frame for 0x7FF and then one for 0x800.
C14_Witness ==
    /\ Len(sent) >= 2
    /\ content[1].id = 2047 /\ sent[1].t = "Standard"
    /\ content[2].id = 2048 /\ sent[2].t = "Extended"

\* The clock entry of the iteration that took record j of this pass.
ClockOf(j) == CHOOSE e \in { clock[n] : n \in 1..Len(clock) } : e.k = j

\* C16 (as claimed): the overhead kept for an iteration is the time of its
\* work up to the submission of the frame, without the time of its progress
\* block, and that is what the next sleep subtracts.
C16_OverheadExcludesReporting ==
    /\ Len(clock) > 0 => passive_timing = clock[Len(clock)].work
    /\ last_sleep # None =>
        LET k == last_sleep[1].k
        IN  last_sleep[1].us =
                ClampedMicros(GapNanos(content[k].ts, content[k - 1].ts), ClockOf(k - 1).work)

\* C16 (amended): the overhead kept for an iteration is the time from the
\* start of its work to the end of its progress block, the time of the
\* progress block included, and that is what the next sleep subtracts.
C16_OverheadIncludesReporting ==
    /\ Len(clock) > 0 =>
          passive_timing = clock[Len(clock)].work + clock[Len(clock)].rep
    /\ last_sleep # None =>
        LET k == last_sleep[1].k
            e == ClockOf(k - 1)
        IN  last_sleep[1].us =
                ClampedMicros(GapNanos(content[k].ts, content[k - 1].ts), e.work + e.rep)

\* Records 10.000 s and 10.010 s, an iteration whose work read 0 ns and
\* whose progress block read 8000500 ns: the second record is slept for
\* 1999 us.
C16_Witness ==
    /\ last_sleep = Some([k |-> 2, us |-> 1999])
    /\ ClockOf(1).work = 0
    /\ ClockOf(1).rep = 8000500
    /\ Len(sent) = 2

\* C17: the sleep before record k is never negative and never longer than
\* the gap G to record k-1; it is 0 whenever the overhead O of iteration k-1
\* is at least G, a record earlier than its predecessor included (G = 0);
\* and when O < G it is floor((G - O) / 1000), whatever excess an earlier
\* iteration left uncompensated.
C17_SleepNeverNegative ==
    last_sleep # None =>
        LET k == last_sleep[1].k
            us == last_sleep[1].us
            G == GapNanos(content[k].ts, content[k - 1].ts)
            O == ClockOf(k - 1).ns
        IN  /\ us >= 0
            /\ us * 1000 <= G
            /\ content[k].ts < content[k - 1].ts => us = 0
            /\ O >= G => us = 0
            /\ O < G => us = (G - O) \div 1000

\* Record 2 is earlier than record 1 and follows an overhead of 3 ms: no
\* sleep.  Record 3 is 10 ms after record 2, whose iteration read 0 ns: a
\* sleep of the full 10000 us.
C17_Witness ==
    /\ Len(content) = 3
    /\ content[1].ts = 10010 /\ content[2].ts = 10000 /\ content[3].ts = 10010
    /\ last_sleep = Some([k |-> 3, us |-> 10000])
    /\ Len(clock) = 2
    /\ clock[1].k = 1 /\ clock[1].ns = 3000000
    /\ clock[2].k = 2 /\ clock[2].ns = 0

\* C18: a pass starts with no previous timestamp and a zero overhead,
\* whatever the passes before it left; its first record is built and
\* submitted without a sleep, and every sleep of the pass is for a record
\* k >= 2 and subtracts the clock reading of iteration k-1 of the same pass
\* from the gap between records k-1 and k.
C18_PassStartsFresh ==
    /\ pc = "for" /\ pos = 0 =>
          /\ old_timing = None
          /\ passive_timing = 0
          /\ sent = <<>> /\ clock = <<>>
    /\ pc = "for" /\ pos <= 1 => nslept = 0 /\ last_sleep = None
    /\ pc = "for" /\ pos >= 1 => old_timing = Some(content[pos].ts)
    /\ pc = "for" /\ last_sleep # None =>
          LET k == last_sleep[1].k
          IN  /\ k >= 2
              /\ \E n \in 1..Len(clock) :
                    /\ clock[n].k = k - 1
                    /\ last_sleep[1].us =
                          ClampedMicros(GapNanos(content[k].ts, content[k - 1].ts), clock[n].ns)

\* With --forever, a pass that follows a pass with a failed send: its first
\* record has been submitted and nothing has been slept for.
C18_Witness ==
    /\ forever
    /\ tx_failed
    /\ pc = "for"
    /\ pos = 1
    /\ Len(content) >= 2
    /\ Len(sent) = 1 /\ sent[1].ok
    /\ nslept = 0
    /\ passive_timing > 0

\* C19: in a pass the frames handed to the socket are those of records
\* 1, 2, ..., in that order and each once; the counter c is the number of
\* them the socket accepted; and when a pass is over without a failed send
\* and without a frame that could not be built, every record has been
\* handed over and c is the length of the sequence.
C19_SubmittedIsPrefix ==
    /\ Len(sent) <= Len(content)
    /\ \A j \in 1..Len(sent) : sent[j].k = j
    /\ c = Cardinality({ j \in 1..Len(sent) : sent[j].ok })
    /\ pc = "for" => Len(sent) = pos
    /\ ( /\ pc \in {"loop", "exit"}
         /\ perc_totals # {}
         /\ "Error sending CAN frames." \notin reports
         /\ \A j \in 1..Len(sent) : sent[j].ok )
       => Len(sent) = Len(content) /\ c = Len(content)

\* A pass over three records that ended without an error.
C19_Witness ==
    /\ pc \in {"loop", "exit"}
    /\ perc_totals # {}
    /\ ~tx_failed
    /\ Len(content) = 3
    /\ Len(sent) = 3
    /\ c = 3

====
